---- MODULE Spec2Model ----
(***************************************************************************)
(* Objective tracker (src/app.js): the objectives table, the four slash    *)
(* commands (submit, create_objective, list_objectives, delete_objective)  *)
(* and the hourly reminder job.                                            *)
(*                                                                         *)
(* Time is counted in hours since the Unix epoch: every duration of the    *)
(* program (22h, 162h, 714h, 24h, the 1h timer) is a whole number of       *)
(* hours.  A calendar date 'YYYY-MM-DD' is the tuple <<Y, M, D>>.          *)
(* A string is a sequence of characters, so that trim() is computed.       *)
(***************************************************************************)
EXTENDS Integers, Sequences, FiniteSets, TLC

\* ------------------------------------------------------------------------
\* Bounds of the model
\* ------------------------------------------------------------------------
Horizon == 1          \* hours of clock the command specification observes
MaxSweeps == 2        \* reminder callbacks in flight at once
MaxLag == 1           \* hours that may pass between Date.now() and new Date()
ReminderDays == 1     \* days after the first the reminder specification observes
MaxCycles == 2        \* nominal periods the punctual specification observes
MaxHandlers == 2      \* submit requests the server holds at once
RunDays == 3          \* days of clock the streak specification observes

Users == {"u1", "u2"}
RawValues == {<<" ">>, <<" ", "a", " ">>}
FreqValues == {"", "daily", "weekly", "monthly", "hourly"}
FreqSample == {"", "daily"}   \* the frequencies Spec creates objectives with

\* ------------------------------------------------------------------------
\* Program constants
\* ------------------------------------------------------------------------
NULL == -1                        \* SQL NULL / JS null of an INTEGER column
NullDate == <<>>                  \* SQL NULL of the TEXT column lastStreakDay
HoursPerDay == 24
DailyOffset == 22
WeeklyOffset == 7 * 24 - 6
MonthlyOffset == 30 * 24 - 6
ReminderCutoff == 24
SweepInterval == 1

\* ------------------------------------------------------------------------
\* JS Date: UTC calendar arithmetic (proleptic Gregorian)
\* ------------------------------------------------------------------------
DaysFromCivil(y, m, d) ==
    LET yy  == IF m <= 2 THEN y - 1 ELSE y
        era == yy \div 400
        yoe == yy - era * 400
        mp  == IF m > 2 THEN m - 3 ELSE m + 9
        doy == (153 * mp + 2) \div 5 + d - 1
        doe == yoe * 365 + yoe \div 4 - yoe \div 100 + doy
    IN  era * 146097 + doe - 719468

CivilFromDays(z) ==
    LET zz  == z + 719468
        era == zz \div 146097
        doe == zz - era * 146097
        yoe == (doe - doe \div 1460 + doe \div 36524 - doe \div 146096) \div 365
        doy == doe - (365 * yoe + yoe \div 4 - yoe \div 100)
        mp  == (5 * doy + 2) \div 153
        d   == doy - (153 * mp + 2) \div 5 + 1
        m   == IF mp < 10 THEN mp + 3 ELSE mp - 9
        y   == yoe + era * 400 + (IF m <= 2 THEN 1 ELSE 0)
    IN  <<y, m, d>>

\* today.toISOString().split('T')[0]
ToISODate(t) == CivilFromDays(t \div HoursPerDay)

\* new Date('YYYY-MM-DD'): midnight UTC of that date
ParseDate(s) == DaysFromCivil(s[1], s[2], s[3]) * HoursPerDay

\* getMonth() (0-based) and getFullYear() read the process's local time
GetMonth(t, tz) == CivilFromDays((t + tz) \div HoursPerDay)[2] - 1
GetFullYear(t, tz) == CivilFromDays((t + tz) \div HoursPerDay)[1]

\* JS truthiness of a number-or-null
Truthy(x) == x # NULL /\ x # 0

\* String.prototype.trim
RECURSIVE TrimLeft(_)
TrimLeft(s) == IF s # <<>> /\ Head(s) = " " THEN TrimLeft(Tail(s)) ELSE s
RECURSIVE TrimRight(_)
TrimRight(s) ==
    IF s # <<>> /\ s[Len(s)] = " " THEN TrimRight(SubSeq(s, 1, Len(s) - 1)) ELSE s
Trim(s) == TrimRight(TrimLeft(s))

\* option?.value?.trim(): an option is <<>> (absent) or <<value>>;
\* undefined and '' are both falsy and both written <<>>
OptTrim(opt) == IF opt = <<>> THEN <<>> ELSE Trim(opt[1])
Options(S) == {<<>>} \cup {<<v>> : v \in S}

Names == {Trim(v) : v \in RawValues} \ {<<>>}

\* 23:00 UTC on 31 December 2023
StartTime == DaysFromCivil(2023, 12, 31) * HoursPerDay + 23
TZOffsets == {0}

\* ------------------------------------------------------------------------
\* State
\* ------------------------------------------------------------------------
VARIABLES
    clock,      \* Date.now(), in hours
    tz,         \* offset of the process's local time from UTC, in hours
    store,      \* the rows of table objectives
    sweeps,     \* the reminder callbacks in flight, by slot
    nextFire,   \* earliest instant at which the interval timer fires next
    accepted,   \* history: instant of the key's latest accepted submission
    deletedSince, \* history: key deleted since that submission
    reminded,   \* history: greatest now of a sweep that reminded the key's row
    handlers,   \* submit handlers between their SELECT and their upsert, by slot
    resp        \* the outcome of the step just taken

vars ==
    <<clock, tz, store, sweeps, nextFire, accepted, deletedSince, reminded, handlers,
      resp>>

Row(u, n, f, ls, st, lsd, lr) ==
    [userId |-> u, name |-> n, frequency |-> f, lastSubmitted |-> ls,
     streak |-> st, lastStreakDay |-> lsd, lastReminded |-> lr]

KeyOf(r) == <<r.userId, r.name>>

NoResp ==
    [op |-> "init", userId |-> "", name |-> <<>>, outcome |-> "", now |-> NULL,
     previous |-> NULL, nextAllowed |-> NULL, isConsecutive |-> FALSE, streak |-> NULL,
     lines |-> {}, slot |-> 0, selected |-> <<>>, finished |-> FALSE]

IdleSweep == [pc |-> "idle", now |-> NULL, stale |-> <<>>, i |-> 0]

\* ------------------------------------------------------------------------
\* Objective store (better-sqlite3 statements)
\* ------------------------------------------------------------------------
\* SELECT * FROM objectives WHERE userId = ?
GetObjectives(u) == {r \in store : r.userId = u}

\* SELECT * FROM objectives WHERE userId = ? AND name = ?  (the matching rows;
\* .get() returns one of them, or undefined when there is none)
GetObjective(u, n) == {r \in store : r.userId = u /\ r.name = n}

\* variant: the conflict target is userId alone
UpsertByUser(obj) == {r \in store : r.userId # obj.userId} \cup {obj}

\* INSERT ... ON CONFLICT(userId, name) DO UPDATE SET every other column
UpsertObjective(obj) == {r \in store : KeyOf(r) # KeyOf(obj)} \cup {obj}

\* PRIMARY KEY (userId, name): a plain INSERT of an existing key throws
InsertViolatesKey(u, n) == GetObjective(u, n) # {}

\* INSERT ... VALUES (@userId, @name, @frequency, NULL, 0, NULL, NULL)
CreateObjective(u, n, f) == store \cup {Row(u, n, f, NULL, 0, NullDate, NULL)}

\* variant: the DELETE filters on name alone
DeleteByName(u, n) == {r \in store : r.name # n}

\* DELETE FROM objectives WHERE userId = ? AND name = ?
DeleteObjective(u, n) == {r \in store : ~(r.userId = u /\ r.name = n)}

\* UPDATE objectives SET lastReminded = ? WHERE userId = ? AND name = ?
UpdateOrInsertLastReminded(t, u, n) ==
    {r \in store : ~(r.userId = u /\ r.name = n)}
      \cup (IF GetObjective(u, n) = {}
              THEN {Row(u, n, "daily", NULL, 0, NullDate, t)}
              ELSE {[r EXCEPT !.lastReminded = t] : r \in GetObjective(u, n)})

UpdateLastReminded(t, u, n) ==
    {IF r.userId = u /\ r.name = n THEN [r EXCEPT !.lastReminded = t] ELSE r
       : r \in store}

\* ------------------------------------------------------------------------
\* Cooldown policy and streak rule, as the handlers compute them
\* ------------------------------------------------------------------------
\* variant: the monthly branch adds 31 days
SubmitNextAllowedLongMonth(obj) ==
    IF ~Truthy(obj.lastSubmitted) THEN 0
    ELSE IF obj.frequency = "monthly" THEN obj.lastSubmitted + 31 * HoursPerDay
    ELSE IF obj.frequency = "weekly" THEN obj.lastSubmitted + WeeklyOffset
    ELSE IF obj.frequency = "daily" THEN obj.lastSubmitted + DailyOffset
    ELSE 0

\* submit, lines 170-183
SubmitNextAllowed(obj) ==
    IF ~Truthy(obj.lastSubmitted) THEN 0
    ELSE IF obj.frequency = "monthly" THEN obj.lastSubmitted + MonthlyOffset
    ELSE IF obj.frequency = "weekly" THEN obj.lastSubmitted + WeeklyOffset
    ELSE IF obj.frequency = "daily" THEN obj.lastSubmitted + DailyOffset
    ELSE 0

\* variant: the comparison is the other way round
CooldownActiveReversed(obj, now) ==
    Truthy(obj.lastSubmitted) /\ now > SubmitNextAllowed(obj)

\* variant: the boundary instant is rejected
CooldownActiveExclusive(obj, now) ==
    Truthy(obj.lastSubmitted) /\ now <= SubmitNextAllowed(obj)

\* submit, line 184
CooldownActive(obj, now) ==
    Truthy(obj.lastSubmitted) /\ now < SubmitNextAllowed(obj)

\* submit, lines 202-216
\* variant: the daily branch counts the days elapsed since lastSubmitted
IsConsecutiveElapsed(obj, today, zone) ==
    IF obj.lastStreakDay = NullDate THEN FALSE
    ELSE LET lastStreakDay == ParseDate(obj.lastStreakDay) IN
         IF obj.frequency = "daily"
           THEN (today - obj.lastSubmitted) \div HoursPerDay = 1
         ELSE IF obj.frequency = "weekly"
           THEN (today - lastStreakDay) \div (7 * HoursPerDay) = 1
         ELSE IF obj.frequency = "monthly"
           THEN /\ GetMonth(today, zone) = GetMonth(lastStreakDay, zone) + 1
                /\ GetFullYear(today, zone) = GetFullYear(lastStreakDay, zone)
         ELSE FALSE

\* variant: the weekly branch asks for the seventh day
IsConsecutiveExactWeek(obj, today, zone) ==
    IF obj.lastStreakDay = NullDate THEN FALSE
    ELSE LET lastStreakDay == ParseDate(obj.lastStreakDay) IN
         IF obj.frequency = "daily"
           THEN (today - lastStreakDay) \div HoursPerDay = 1
         ELSE IF obj.frequency = "weekly"
           THEN (today - lastStreakDay) \div HoursPerDay = 7
         ELSE IF obj.frequency = "monthly"
           THEN /\ GetMonth(today, zone) = GetMonth(lastStreakDay, zone) + 1
                /\ GetFullYear(today, zone) = GetFullYear(lastStreakDay, zone)
         ELSE FALSE

IsConsecutive(obj, today, zone) ==
    IF obj.lastStreakDay = NullDate THEN FALSE
    ELSE LET lastStreakDay == ParseDate(obj.lastStreakDay) IN
         IF obj.frequency = "daily"
           THEN (today - lastStreakDay) \div HoursPerDay = 1
         ELSE IF obj.frequency = "weekly"
           THEN (today - lastStreakDay) \div (7 * HoursPerDay) = 1
         ELSE IF obj.frequency = "monthly"
           THEN /\ GetMonth(today, zone) = GetMonth(lastStreakDay, zone) + 1
                /\ GetFullYear(today, zone) = GetFullYear(lastStreakDay, zone)
         ELSE FALSE

\* variant: the streak is never reset
NextStreakNoReset(obj, consecutive) ==
    (IF Truthy(obj.streak) THEN obj.streak ELSE 0) + 1

\* submit, lines 217-221
NextStreak(obj, consecutive) ==
    IF consecutive
      THEN (IF Truthy(obj.streak) THEN obj.streak ELSE 0) + 1
      ELSE 1

\* submit, lines 198-222: the record that is written back
Submitted(obj, now, today, zone) ==
    [obj EXCEPT !.lastSubmitted = now,
                !.streak = NextStreak(obj, IsConsecutive(obj, today, zone)),
                !.lastStreakDay = ToISODate(today)]

\* submit, lines 227-229
ResponseNextAllowed(obj, nextAllowed) ==
    IF obj.frequency = "monthly" THEN obj.lastSubmitted + MonthlyOffset
    ELSE IF obj.frequency = "weekly" THEN obj.lastSubmitted + WeeklyOffset
    ELSE IF obj.frequency = "daily" THEN obj.lastSubmitted + DailyOffset
    ELSE nextAllowed

\* variant: the listing adds the nominal day to a daily objective
ListNextAllowedNominal(obj) ==
    IF ~Truthy(obj.lastSubmitted) THEN 0
    ELSE IF obj.frequency = "monthly" THEN obj.lastSubmitted + MonthlyOffset
    ELSE IF obj.frequency = "weekly" THEN obj.lastSubmitted + WeeklyOffset
    ELSE IF obj.frequency = "daily" THEN obj.lastSubmitted + HoursPerDay
    ELSE 0

\* list_objectives, lines 322-327
ListNextAllowed(obj) ==
    IF ~Truthy(obj.lastSubmitted) THEN 0
    ELSE IF obj.frequency = "monthly" THEN obj.lastSubmitted + MonthlyOffset
    ELSE IF obj.frequency = "weekly" THEN obj.lastSubmitted + WeeklyOffset
    ELSE IF obj.frequency = "daily" THEN obj.lastSubmitted + DailyOffset
    ELSE 0

\* list_objectives, lines 328-337: one line of the answer
ListLine(obj, now) ==
    LET available == ~Truthy(obj.lastSubmitted) \/ now >= ListNextAllowed(obj)
    IN  [name |-> obj.name, frequency |-> obj.frequency,
         availability |-> IF available THEN "now" ELSE "later",
         nextAllowed |-> IF available THEN NULL ELSE ListNextAllowed(obj),
         streak |-> IF obj.streak > 3 THEN obj.streak ELSE NULL]

\* ------------------------------------------------------------------------
\* Initial state: the process starts on a database file left by earlier runs
\* ------------------------------------------------------------------------
\* A row whose latest submission was accepted at instant ls (streak st)
Historical(u, n, f, ls, st, lr) == Row(u, n, f, ls, st, ToISODate(ls), lr)

\* rows left by earlier runs: each is one hour short of its cooldown's end
SeedDaily == Historical("u1", <<"a">>, "daily", StartTime - DailyOffset + 1, 2, NULL)
SeedWeekly ==
    Historical("u2", <<"a">>, "weekly", StartTime - WeeklyOffset + 1, 4,
            StartTime - ReminderCutoff)
SeedMonthly ==
    Historical("u2", <<"a">>, "monthly", StartTime - MonthlyOffset + 1, 1,
            StartTime - ReminderCutoff + 1)
\* a row of u2 that no request of the model names
SeedOther == Historical("u2", <<"b">>, "daily", StartTime - 2, 5, NULL)

InitStores ==
    { {}, {SeedDaily, SeedWeekly}, {SeedDaily, SeedMonthly, SeedOther} }

Keys == (Users \X Names) \cup {KeyOf(r) : r \in UNION InitStores}

LastSubmittedOf(rows, k) ==
    IF \E r \in rows : KeyOf(r) = k
      THEN (CHOOSE r \in rows : KeyOf(r) = k).lastSubmitted
      ELSE NULL

Init ==
    /\ clock = StartTime
    /\ tz \in TZOffsets
    /\ store \in InitStores
    /\ sweeps = [s \in 1..MaxSweeps |-> IdleSweep]
    /\ nextFire = StartTime + SweepInterval
    /\ accepted = [k \in Keys |-> LastSubmittedOf(store, k)]
    /\ deletedSince = [k \in Keys |-> FALSE]
    /\ reminded = [k \in Keys |-> NULL]
    /\ handlers = [h \in 1..MaxHandlers |-> <<>>]
    /\ resp = NoResp

\* ------------------------------------------------------------------------
\* Command handlers (each runs to completion: no await before its response)
\* ------------------------------------------------------------------------
\* res.send: the answer names the command's objective, except when an
\* argument is missing
Answer(op, u, n, outcome) ==
    [NoResp EXCEPT !.op = op, !.userId = u, !.name = n, !.outcome = outcome]

Invalid(op, outcome) == [NoResp EXCEPT !.op = op, !.outcome = outcome]

\* submit, lines 110-248
Submit(u, opt, attachment, lag) ==
    LET objective == OptTrim(opt)
        found == GetObjective(u, objective)
        Reject(answer) ==
            /\ lag = 0
            /\ resp' = answer
            /\ UNCHANGED <<clock, tz, store, sweeps, nextFire>>
    IN  IF ~attachment /\ objective = <<>> THEN Reject(Invalid("submit", "MissingBoth"))
        ELSE IF ~attachment THEN Reject(Invalid("submit", "MissingImage"))
        ELSE IF objective = <<>> THEN Reject(Invalid("submit", "MissingObjective"))
        ELSE IF found = {} THEN Reject(Answer("submit", u, objective, "NotFound"))
        ELSE \E obj \in found :
               LET now == clock
                   today == clock + lag
                   written == Submitted(obj, now, today, tz)
               IN  IF CooldownActive(obj, now)
                     THEN /\ lag = 0
                          /\ resp' = [Answer("submit", u, objective, "CooldownActive")
                                        EXCEPT !.now = now,
                                               !.previous = obj.lastSubmitted,
                                               !.nextAllowed = SubmitNextAllowed(obj)]
                          /\ UNCHANGED <<clock, tz, store, sweeps, nextFire>>
                     ELSE /\ clock' = today
                          /\ store' = UpsertObjective(written)
                          /\ resp' = [Answer("submit", u, objective, "Accepted")
                                        EXCEPT !.now = now,
                                               !.previous = obj.lastSubmitted,
                                               !.isConsecutive = IsConsecutive(obj, today, tz),
                                               !.streak = written.streak,
                                               !.nextAllowed =
                                                   ResponseNextAllowed(written, SubmitNextAllowed(obj))]
                          /\ UNCHANGED <<tz, sweeps, nextFire>>

\* create_objective, lines 259-300
\* variant: the handler inserts without looking the key up first
CreateOutcomeUnchecked(u, objectiveName, frequency) ==
    IF objectiveName = <<>> \/ frequency = "" THEN "MissingFields"
    ELSE IF InsertViolatesKey(u, objectiveName) THEN "StorageFailure"
    ELSE "Created"

\* create_objective, lines 266-291: the handler's decision
CreateOutcome(u, objectiveName, frequency) ==
    IF objectiveName = <<>> \/ frequency = "" THEN "MissingFields"
    ELSE IF GetObjective(u, objectiveName) # {} THEN "AlreadyExists"
    ELSE IF InsertViolatesKey(u, objectiveName) THEN "StorageFailure"
    ELSE "Created"

Create(u, opt, frequency) ==
    LET objectiveName == OptTrim(opt)
        outcome == CreateOutcome(u, objectiveName, frequency)
    IN  /\ store' = IF outcome = "Created"
                      THEN CreateObjective(u, objectiveName, frequency)
                      ELSE store
        /\ resp' = IF outcome = "MissingFields"
                     THEN Invalid("create_objective", outcome)
                     ELSE Answer("create_objective", u, objectiveName, outcome)
        /\ UNCHANGED <<clock, tz, sweeps, nextFire>>

\* list_objectives, lines 308-346
List(u) ==
    LET objectives == GetObjectives(u)
        now == clock
    IN  /\ resp' = IF objectives = {}
                     THEN Answer("list_objectives", u, <<>>, "Empty")
                     ELSE [Answer("list_objectives", u, <<>>, "Listed")
                             EXCEPT !.now = now,
                                    !.lines = {ListLine(obj, now) : obj \in objectives}]
        /\ UNCHANGED <<clock, tz, store, sweeps, nextFire>>

\* delete_objective, lines 354-388
Delete(u, opt) ==
    LET objectiveName == OptTrim(opt)
        outcome == IF objectiveName = <<>> THEN "MissingName"
                   ELSE IF GetObjective(u, objectiveName) = {} THEN "NotFound"
                   ELSE "Deleted"
    IN  /\ store' = IF outcome = "Deleted"
                      THEN DeleteObjective(u, objectiveName)
                      ELSE store
        /\ resp' = IF outcome = "MissingName"
                     THEN Invalid("delete_objective", outcome)
                     ELSE Answer("delete_objective", u, objectiveName, outcome)
        /\ UNCHANGED <<clock, tz, sweeps, nextFire>>

\* the wall clock advances by d hours
Tick(d) ==
    /\ clock' = clock + d
    /\ resp' = [NoResp EXCEPT !.op = "tick", !.now = clock + d]
    /\ UNCHANGED <<tz, store, sweeps, nextFire>>

\* ------------------------------------------------------------------------
\* Reminder job, lines 71-97: an async callback of an hourly interval timer.
\* It runs up to its first await, then one step per settled promise.
\* ------------------------------------------------------------------------
\* lines 76-80: the rows the SELECT returns
Stale(now) ==
    LET cutoff == now - ReminderCutoff
    IN  {r \in store :
           /\ (r.lastSubmitted = NULL \/ r.lastSubmitted < cutoff)
           /\ (r.lastReminded = NULL \/ r.lastReminded < cutoff)}

\* the SELECT has no ORDER BY: the rows come in some order
Orderings(S) ==
    {q \in [1..Cardinality(S) -> S] : \A i, j \in 1..Cardinality(S) : q[i] = q[j] => i = j}

AdvanceRetry(sw) == [sw EXCEPT !.pc = "fetch"]

\* the loop moves on to the next row, or the callback returns
Advance(sw) ==
    IF sw.i = Len(sw.stale)
      THEN IdleSweep
      ELSE [sw EXCEPT !.pc = "fetch", !.i = sw.i + 1]

Report(op, s, sw, key, outcome) ==
    [NoResp EXCEPT !.op = op, !.slot = s, !.userId = key[1], !.name = key[2],
                   !.outcome = outcome, !.now = sw.now, !.selected = sw.stale,
                   !.finished = (outcome # "user" /\ sw.i = Len(sw.stale))]

\* lines 71-84: the timer fires; the callback queries and starts the first fetch
SweepStart(s) ==
    /\ clock >= nextFire
    /\ sweeps[s].pc = "idle"
    /\ \A t \in 1..(s - 1) : sweeps[t].pc # "idle"
    /\ nextFire' = clock + SweepInterval
    /\ \E order \in Orderings({KeyOf(r) : r \in Stale(clock)}) :
         /\ sweeps' = IF order = <<>>
                        THEN sweeps
                        ELSE [sweeps EXCEPT ![s] =
                                [pc |-> "fetch", now |-> clock, stale |-> order,
                                 i |-> 1]]
         /\ resp' = [NoResp EXCEPT !.op = "sweep", !.slot = s, !.now = clock,
                                   !.selected = order, !.finished = (order = <<>>)]
    /\ UNCHANGED <<clock, tz, store>>

\* lines 84-85, 93-95: users.fetch settles
SweepFetch(s, result) ==
    LET sw == sweeps[s]
        key == sw.stale[sw.i]
    IN  /\ sw.pc = "fetch"
        /\ sweeps' = [sweeps EXCEPT ![s] =
                        IF result = "user"
                          THEN [sw EXCEPT !.pc = "send"]
                          ELSE Advance(sw)]
        /\ resp' = Report("fetch", s, sw, key, result)
        /\ UNCHANGED <<clock, tz, store, nextFire>>

\* lines 86-95: user.send settles; on success the row is marked reminded
SweepSend(s, delivered) ==
    LET sw == sweeps[s]
        key == sw.stale[sw.i]
        outcome == IF delivered THEN "sent" ELSE "failed"
    IN  /\ sw.pc = "send"
        /\ store' = IF delivered
                      THEN UpdateLastReminded(sw.now, key[1], key[2])
                      ELSE store
        /\ sweeps' = [sweeps EXCEPT ![s] = Advance(sw)]
        /\ resp' = Report("send", s, sw, key, outcome)
        /\ UNCHANGED <<clock, tz, nextFire>>

\* ------------------------------------------------------------------------
\* Specification: commands, reminder job and clock over Horizon hours
\* ------------------------------------------------------------------------
Deadline == StartTime + Horizon

\* the history variables are not kept; no submit handler is held halfway
NoHistory == UNCHANGED <<accepted, deletedSince, reminded, handlers>>

\* the requests the model sends: a user and the name option of the command;
\* a request whose name is missing or blank is sent by one user only
Requests ==
    {rq \in Users \X Options(RawValues) : OptTrim(rq[2]) # <<>> \/ rq[1] = "u1"}

SubmitStep ==
    \E rq \in Requests, attachment \in BOOLEAN, lag \in 0..MaxLag :
        Submit(rq[1], rq[2], attachment, lag) /\ clock' <= Deadline /\ NoHistory

CreateStep ==
    \E rq \in Requests, frequency \in FreqSample :
        Create(rq[1], rq[2], frequency) /\ NoHistory

ListStep == \E u \in Users : List(u) /\ NoHistory

DeleteStep == \E rq \in Requests : Delete(rq[1], rq[2]) /\ NoHistory

TickStep == Tick(1) /\ clock' <= Deadline /\ NoHistory

SweepStartStep == \E s \in 1..MaxSweeps : SweepStart(s) /\ NoHistory

SweepFetchStep ==
    \E s \in 1..MaxSweeps, result \in {"user", "none", "error"} :
        SweepFetch(s, result) /\ NoHistory

SweepSendStep ==
    \E s \in 1..MaxSweeps, delivered \in BOOLEAN : SweepSend(s, delivered) /\ NoHistory

Next ==
    \/ SubmitStep
    \/ CreateStep
    \/ ListStep
    \/ DeleteStep
    \/ TickStep
    \/ SweepStartStep
    \/ SweepFetchStep
    \/ SweepSendStep

Spec == Init /\ [][Next]_vars

\* ------------------------------------------------------------------------
\* SpecHistory: the same steps, with the accepted submissions recorded
\* ------------------------------------------------------------------------
RespKey == <<resp.userId, resp.name>>

Track ==
    LET submitted == resp'.op = "submit" /\ resp'.outcome = "Accepted"
        deleted == resp'.op = "delete_objective" /\ resp'.outcome = "Deleted"
    IN  /\ accepted' = IF submitted
                         THEN [accepted EXCEPT ![RespKey'] = resp'.now]
                         ELSE accepted
        /\ deletedSince' = IF submitted
                             THEN [deletedSince EXCEPT ![RespKey'] = FALSE]
                             ELSE IF deleted
                               THEN [deletedSince EXCEPT ![RespKey'] = accepted[RespKey'] # NULL]
                               ELSE deletedSince
        /\ UNCHANGED reminded

History == Track /\ UNCHANGED handlers

\* the requests of one user; the other user's rows stay as the database
\* file has them, but for the reminder job
RequestsOfOne == {rq \in Requests : rq[1] = "u1"}

SubmitRecorded ==
    \E rq \in RequestsOfOne, attachment \in BOOLEAN, lag \in 0..MaxLag :
        Submit(rq[1], rq[2], attachment, lag) /\ clock' <= Deadline /\ History

CreateRecorded ==
    \E rq \in RequestsOfOne, frequency \in FreqValues :
        Create(rq[1], rq[2], frequency) /\ History

DeleteRecorded == \E rq \in RequestsOfOne : Delete(rq[1], rq[2]) /\ History

NextHistory ==
    \/ SubmitRecorded
    \/ CreateRecorded
    \/ DeleteRecorded
    \/ ListStep
    \/ TickStep
    \/ SweepStartStep
    \/ SweepFetchStep
    \/ SweepSendStep

SpecHistory == Init /\ [][NextHistory]_vars

\* ------------------------------------------------------------------------
\* SpecReminders: the reminder job over more than a day, one user's
\* delete_objective between its steps, the reminders recorded
\* ------------------------------------------------------------------------
\* the instants the clock is read at: the first two firings of the timer
\* and the firings a whole number of days after the second
ReminderInstants ==
    {StartTime + SweepInterval}
      \cup {StartTime + 2 * SweepInterval + d * ReminderCutoff : d \in 0..ReminderDays}

Greater(a, b) == IF a > b THEN a ELSE b

Reminding ==
    LET sent == resp'.op = "send" /\ resp'.outcome = "sent"
                  /\ \E r \in store : KeyOf(r) = RespKey'
        deleted == resp'.op = "delete_objective" /\ resp'.outcome = "Deleted"
    IN  /\ reminded' = IF sent
                         THEN [reminded EXCEPT ![RespKey'] = Greater(@, resp'.now)]
                         ELSE IF deleted
                           THEN [reminded EXCEPT ![RespKey'] = NULL]
                           ELSE reminded
        /\ UNCHANGED <<accepted, deletedSince, handlers>>

ReminderTick ==
    \E t \in ReminderInstants : t > clock /\ Tick(t - clock) /\ NoHistory

SendReminding ==
    \E s \in 1..MaxSweeps, delivered \in BOOLEAN : SweepSend(s, delivered) /\ Reminding

DeleteReminding == Delete("u1", <<<<"a">>>>) /\ Reminding

NextReminders ==
    \/ ReminderTick
    \/ SweepStartStep
    \/ SweepFetchStep
    \/ SendReminding
    \/ DeleteReminding

SpecReminders == Init /\ [][NextReminders]_vars

\* ------------------------------------------------------------------------
\* SpecPunctual: one user's objective of each cadence, submitted only a
\* whole number of nominal periods after its last accepted submission,
\* with list_objectives and the reminder job in between
\* ------------------------------------------------------------------------
Cadences == {"daily", "weekly", "monthly"}

\* the nominal period of a cadence, lines 173, 177, 181 (comments)
Nominal(frequency) ==
    IF frequency = "monthly" THEN 30 * HoursPerDay
    ELSE IF frequency = "weekly" THEN 7 * HoursPerDay
    ELSE HoursPerDay

PunctualKey == <<"u1", <<"a">>>>

\* the database after one create_objective, lines 58-63
InitPunctual ==
    /\ clock = StartTime
    /\ tz \in TZOffsets
    /\ store \in {{Row("u1", <<"a">>, f, NULL, 0, NullDate, NULL)} : f \in Cadences}
    /\ sweeps = [s \in 1..MaxSweeps |-> IdleSweep]
    /\ nextFire = StartTime + SweepInterval
    /\ accepted = [k \in Keys |-> NULL]
    /\ deletedSince = [k \in Keys |-> FALSE]
    /\ reminded = [k \in Keys |-> NULL]
    /\ handlers = [h \in 1..MaxHandlers |-> <<>>]
    /\ resp = NoResp

\* the instants of a punctual user: k nominal periods after the last
\* accepted submission
PunctualInstants ==
    {accepted[PunctualKey] + k * Nominal(r.frequency) :
        k \in 1..MaxCycles, r \in GetObjective("u1", <<"a">>)}

PunctualSubmit ==
    \E lag \in 0..MaxLag :
        /\ accepted[PunctualKey] = NULL \/ clock \in PunctualInstants
        /\ Submit("u1", <<<<"a">>>>, TRUE, lag)
        /\ History

PunctualTick ==
    \E t \in PunctualInstants :
        /\ accepted[PunctualKey] # NULL
        /\ t > clock
        /\ \A r \in store : t <= StartTime + MaxCycles * Nominal(r.frequency)
        /\ Tick(t - clock)
        /\ NoHistory

NextPunctual ==
    \/ PunctualSubmit
    \/ PunctualTick
    \/ ListStep
    \/ SweepStartStep
    \/ SweepFetchStep
    \/ SweepSendStep

SpecPunctual == InitPunctual /\ [][NextPunctual]_vars

\* ------------------------------------------------------------------------
\* SpecRace: the submit handler in its two storage calls, the SELECT of
\* line 156 and the upsert of line 224, for requests the server holds at
\* the same time; the other steps are taken when the event loop is free
\* ------------------------------------------------------------------------
HandlerYieldsBeforeWrite == TRUE

\* lines 156-224: there is no await between getObjective and
\* upsertObjective, and better-sqlite3 calls are synchronous, so the event
\* loop runs nothing else while a handler is between them
HandlerYields == FALSE

Running == \E h \in 1..MaxHandlers : handlers[h] # <<>>

LoopFree == Running => HandlerYields

\* lines 110-195: a handler runs up to the answer of its cooldown check; one
\* that rejects has answered, one that passes holds the record it read
RaceRead(h, u, opt) ==
    LET objective == OptTrim(opt)
        found == GetObjective(u, objective)
    IN  /\ LoopFree
        /\ handlers[h] = <<>>
        /\ \A g \in 1..(h - 1) : handlers[g] # <<>>
        /\ IF objective = <<>> \/ found = {}
                \/ \E obj \in found : CooldownActive(obj, clock)
             THEN Submit(u, opt, TRUE, 0) /\ UNCHANGED handlers
             ELSE \E obj \in found :
                    /\ handlers' = [handlers EXCEPT ![h] = <<[obj |-> obj, now |-> clock]>>]
                    /\ resp' = [Answer("read", u, objective, "")
                                  EXCEPT !.now = clock, !.slot = h,
                                         !.previous = obj.lastSubmitted]
                    /\ UNCHANGED <<clock, tz, store, sweeps, nextFire>>

\* lines 197-248: the handler mutates the record it read and upserts it
RaceWrite(h, lag) ==
    /\ handlers[h] # <<>>
    /\ LET obj == handlers[h][1].obj
           now == handlers[h][1].now
           today == clock + lag
           written == Submitted(obj, now, today, tz)
       IN  /\ clock' = today
           /\ store' = UpsertObjective(written)
           /\ resp' = [Answer("submit", obj.userId, obj.name, "Accepted")
                         EXCEPT !.now = now, !.slot = h,
                                !.previous = obj.lastSubmitted,
                                !.isConsecutive = IsConsecutive(obj, today, tz),
                                !.streak = written.streak,
                                !.nextAllowed =
                                    ResponseNextAllowed(written, SubmitNextAllowed(obj))]
    /\ handlers' = [handlers EXCEPT ![h] = <<>>]
    /\ UNCHANGED <<tz, sweeps, nextFire>>

RaceReadStep ==
    \E h \in 1..MaxHandlers, rq \in RequestsOfOne :
        RaceRead(h, rq[1], rq[2]) /\ UNCHANGED <<accepted, deletedSince, reminded>>

RaceWriteStep ==
    \E h \in 1..MaxHandlers, lag \in 0..MaxLag :
        RaceWrite(h, lag) /\ clock' <= Deadline /\ Track

NextRace ==
    \/ RaceReadStep
    \/ RaceWriteStep
    \/ LoopFree /\ CreateRecorded
    \/ LoopFree /\ DeleteRecorded
    \/ LoopFree /\ TickStep
    \/ LoopFree /\ SweepStartStep
    \/ LoopFree /\ SweepFetchStep
    \/ LoopFree /\ SweepSendStep

SpecRace == Init /\ [][NextRace]_vars

\* ------------------------------------------------------------------------
\* SpecStreak: one objective with a submission history of some days, weeks
\* or months, submitted at sampled hours of the days around a new year, in
\* a process whose local time is west of, at, or east of UTC
\* ------------------------------------------------------------------------
StreakStart == DaysFromCivil(2023, 12, 30) * HoursPerDay

StreakDeadline == StreakStart + RunDays * HoursPerDay

StreakZones == {0 - 5, 0, 9}

HoursOfDay == {0, 1, 2, 22, 23}

\* how many days before StreakStart the stored lastStreakDay lies
DaysBack(frequency) ==
    IF frequency = "daily" THEN {0, 1, 2}
    ELSE IF frequency = "weekly" THEN {5, 6, 12, 13}
    ELSE IF frequency = "monthly" THEN {1, 29, 30, 60, 365, 396}
    ELSE {0, 1}

StreakRows ==
    {Historical("u1", <<"a">>, f, StreakStart - d * HoursPerDay + h, 2, NULL) :
        f \in FreqValues \ {""}, d \in 0..396, h \in {0, 23}}

InitStreak ==
    /\ clock = StreakStart
    /\ tz \in StreakZones
    /\ \E r \in StreakRows :
          /\ r.lastSubmitted <= StreakStart
          /\ (StreakStart - ParseDate(r.lastStreakDay)) \div HoursPerDay
                \in DaysBack(r.frequency)
          /\ store = {r}
    /\ sweeps = [s \in 1..MaxSweeps |-> IdleSweep]
    /\ nextFire = StreakStart + SweepInterval
    /\ accepted = [k \in Keys |-> LastSubmittedOf(store, k)]
    /\ deletedSince = [k \in Keys |-> FALSE]
    /\ reminded = [k \in Keys |-> NULL]
    /\ handlers = [h \in 1..MaxHandlers |-> <<>>]
    /\ resp = NoResp

\* the instants the clock is read at: the sampled hours of each day and
\* the end of the stored record's cooldown
StreakInstants ==
    {t \in {StreakStart + d * HoursPerDay + h : d \in 0..(RunDays - 1), h \in HoursOfDay}
              \cup {SubmitNextAllowed(r) : r \in store} \cup {StreakDeadline} :
        t > clock /\ t <= StreakDeadline}

StreakTick ==
    \E t \in StreakInstants :
        /\ \A other \in StreakInstants : t <= other
        /\ Tick(t - clock)
        /\ NoHistory

StreakSubmit ==
    \E lag \in 0..MaxLag :
        Submit("u1", <<<<"a">>>>, TRUE, lag) /\ clock' <= StreakDeadline /\ History

NextStreakRun ==
    \/ StreakSubmit
    \/ StreakTick
    \/ ListStep

SpecStreak == InitStreak /\ [][NextStreakRun]_vars

\* ------------------------------------------------------------------------
\* Properties
\* ------------------------------------------------------------------------
RowsOf(rows, k) == {r \in rows : KeyOf(r) = k}
Others(rows, k) == {r \in rows : KeyOf(r) # k}
Window(f) == CASE f = "daily" -> 22 [] f = "weekly" -> 162 [] f = "monthly" -> 714
SubmitOutcomes ==
    {"MissingBoth", "MissingImage", "MissingObjective", "NotFound",
     "CooldownActive", "Accepted"}

\* C1: a submit that is not Accepted leaves the store unchanged; an Accepted
\* submit writes exactly one row, the one keyed by the submitted
\* (userId, name), and leaves every other row as it was.
C1_SubmitWritesOnlyOnAccept ==
    [][resp'.op = "submit" =>
         /\ resp'.outcome \in SubmitOutcomes
         /\ resp'.outcome # "Accepted" => store' = store
         /\ resp'.outcome = "Accepted" =>
              /\ Others(store', RespKey') = Others(store, RespKey')
              /\ Cardinality(RowsOf(store', RespKey')) = 1
              /\ Cardinality(RowsOf(store, RespKey')) = 1
              /\ \A r \in RowsOf(store', RespKey') :
                     r.lastSubmitted = resp'.now]_vars

C1_Witness ==
    /\ resp.op = "submit"
    /\ resp.outcome = "CooldownActive"
    /\ Cardinality(store) >= 2

\* C2: for an existing objective of cadence daily/weekly/monthly a submit at
\* instant now is accepted iff lastSubmitted is unset or
\* now >= lastSubmitted + 22h/162h/714h; a rejected one carries that instant.
C2_CooldownBoundary ==
    [][(resp'.op = "submit" /\ resp'.outcome \in {"Accepted", "CooldownActive"}) =>
         \A r \in RowsOf(store, RespKey') :
             r.frequency \in Cadences =>
               /\ (resp'.outcome = "Accepted") <=>
                    (r.lastSubmitted = NULL
                       \/ resp'.now >= r.lastSubmitted + Window(r.frequency))
               /\ resp'.outcome = "CooldownActive" =>
                    resp'.nextAllowed = r.lastSubmitted + Window(r.frequency)]_vars

\* a submission accepted exactly at nextAllowed of a monthly objective
C2_Witness ==
    /\ resp.op = "submit"
    /\ resp.outcome = "Accepted"
    /\ resp.previous # NULL
    /\ resp.now = resp.previous + 714
    /\ \E r \in RowsOf(store, RespKey) : r.frequency = "monthly"

\* C3 as stated: any two accepted submissions for the same (userId, name) are
\* at least the cadence's cooldown window apart.
C3_Original ==
    [][(resp'.op = "submit" /\ resp'.outcome = "Accepted"
          /\ accepted[RespKey'] # NULL) =>
         \A r \in RowsOf(store, RespKey') :
             r.frequency \in Cadences =>
                 resp'.now >= accepted[RespKey'] + Window(r.frequency)]_vars

\* C3 amended: two accepted submissions for the same (userId, name) with no
\* delete_objective of that key between them are at least the cadence's
\* cooldown window apart.
C3_CooldownBetweenAccepted ==
    [][(resp'.op = "submit" /\ resp'.outcome = "Accepted"
          /\ accepted[RespKey'] # NULL /\ ~deletedSince[RespKey']) =>
         \A r \in RowsOf(store, RespKey') :
             r.frequency \in Cadences =>
                 resp'.now >= accepted[RespKey'] + Window(r.frequency)]_vars

\* a second accepted submission of a daily record that was never deleted,
\* the cooldown window after the first
C3_Witness ==
    /\ resp.op = "submit"
    /\ resp.outcome = "Accepted"
    /\ resp.previous # NULL
    /\ resp.now = resp.previous + Window("daily")
    /\ \E r \in RowsOf(store, RespKey) : r.frequency = "daily" /\ r.streak = 3

\* C4: an accepted submission stores streak + 1 when it is consecutive and 1
\* otherwise (1 for the first submission); every step leaves a record's
\* streak unchanged, adds exactly 1 to it, or sets it to 1.
C4_StreakStep ==
    [][/\ \A r \in store, q \in store' :
             KeyOf(r) = KeyOf(q) => q.streak \in {r.streak, r.streak + 1, 1}
       /\ (resp'.op = "submit" /\ resp'.outcome = "Accepted") =>
             \A r \in RowsOf(store, RespKey'), q \in RowsOf(store', RespKey') :
                 /\ q.streak = IF resp'.isConsecutive THEN r.streak + 1 ELSE 1
                 /\ q.streak >= 1
                 /\ r.lastSubmitted = NULL => q.streak = 1]_vars

C4_Witness ==
    /\ resp.op = "submit"
    /\ resp.outcome = "Accepted"
    /\ resp.isConsecutive
    /\ \E r \in RowsOf(store, RespKey) : r.streak = 3

\* C5: a submission made a whole number of nominal periods (24h, 7 days,
\* 30 days) after the last accepted one is never answered CooldownActive,
\* and the nextAllowed it stores and answers is strictly less than its
\* lastSubmitted plus the nominal period.
C5_PunctualNeverRejected ==
    [][(/\ resp'.op = "submit"
        /\ resp'.outcome \in {"Accepted", "CooldownActive"}
        /\ accepted[RespKey'] # NULL
        /\ \E r \in RowsOf(store, RespKey'), k \in 1..MaxCycles :
               resp'.now = accepted[RespKey'] + k * Nominal(r.frequency)) =>
         /\ resp'.outcome = "Accepted"
         /\ \A r \in RowsOf(store', RespKey') :
                /\ r.lastSubmitted = resp'.now
                /\ SubmitNextAllowed(r) < r.lastSubmitted + Nominal(r.frequency)
                /\ resp'.nextAllowed < r.lastSubmitted + Nominal(r.frequency)]_vars

\* the second punctual submission of a monthly objective is accepted
C5_Witness ==
    /\ resp.op = "submit"
    /\ resp.outcome = "Accepted"
    /\ resp.now = StartTime + 2 * Nominal("monthly")
    /\ resp.previous = StartTime + Nominal("monthly")
    /\ \E r \in RowsOf(store, RespKey) : r.frequency = "monthly"

\* C6: create_objective for a key that already exists answers AlreadyExists
\* and leaves the store unchanged; no two rows ever share a (userId, name).
UniqueKeys == \A r, q \in store : KeyOf(r) = KeyOf(q) => r = q

C6_CreateExisting ==
    /\ []UniqueKeys
    /\ [][(resp'.op = "create_objective" /\ resp'.outcome # "MissingFields") =>
            /\ resp'.outcome \in {"AlreadyExists", "Created"}
            /\ RowsOf(store, RespKey') # {} =>
                   (resp'.outcome = "AlreadyExists" /\ store' = store)
            /\ RowsOf(store, RespKey') = {} =>
                   (resp'.outcome = "Created" /\ Cardinality(store') = Cardinality(store) + 1)]_vars

\* AlreadyExists for a record that carries a submission and a reminder
C6_Witness ==
    /\ resp.op = "create_objective"
    /\ resp.outcome = "AlreadyExists"
    /\ \E r \in RowsOf(store, RespKey) :
           r.lastSubmitted # NULL /\ r.streak > 0 /\ r.lastReminded # NULL

\* C7: delete_objective of a key without a row answers NotFound and changes
\* nothing; of an existing key it answers Deleted and removes exactly that
\* row; a submit for a key without a row answers NotFound.
C7_Delete ==
    [][/\ (resp'.op = "delete_objective" /\ resp'.outcome # "MissingName") =>
            IF RowsOf(store, RespKey') = {}
              THEN resp'.outcome = "NotFound" /\ store' = store
              ELSE /\ resp'.outcome = "Deleted"
                   /\ store' = Others(store, RespKey')
                   /\ Cardinality(store') = Cardinality(store) - 1
       /\ (resp'.op = "submit" /\ resp'.outcome \in {"NotFound", "CooldownActive", "Accepted"}) =>
            (resp'.outcome = "NotFound" <=> RowsOf(store, RespKey') = {})]_vars

\* a submit answered NotFound for a key that had a submitted row when the
\* process started, while another user's row of the same name is still there
C7_Witness ==
    /\ resp.op = "submit"
    /\ resp.outcome = "NotFound"
    /\ accepted[RespKey] # NULL
    /\ \E r \in store : r.name = resp.name /\ r.userId # resp.userId

\* C8: list_objectives never changes the store, answers Empty exactly when
\* the user has no row, and reports each row as available now exactly when
\* submit would not answer CooldownActive at that instant, otherwise with the
\* nextAllowed submit would answer.
C8_ListAgreesWithSubmit ==
    [][resp'.op = "list_objectives" =>
         LET mine == {r \in store : r.userId = resp'.userId} IN
         /\ store' = store
         /\ resp'.outcome = "Empty" <=> mine = {}
         /\ Cardinality(resp'.lines) = Cardinality(mine)
         /\ \A r \in mine :
                \E l \in resp'.lines :
                    /\ l.name = r.name
                    /\ l.availability = "now" <=> ~CooldownActive(r, resp'.now)
                    /\ l.availability # "now" =>
                           l.nextAllowed = SubmitNextAllowed(r)]_vars

\* a listing with one row available now and one still cooling down
C8_Witness ==
    /\ resp.op = "list_objectives"
    /\ \E l, m \in resp.lines : l.availability = "now" /\ m.availability = "later"

\* ------------------------------------------------------------------------
\* Reminder job properties, checked under SpecReminders
\* ------------------------------------------------------------------------
SelectedKeys(order) == {order[i] : i \in 1..Len(order)}

\* C9: a sweep reading the clock at now selects exactly the rows with
\* (lastSubmitted null or < now - 24h) and (lastReminded null or < now - 24h);
\* after a successful dispatch the row's lastReminded is that sweep's now;
\* and a sweep that starts after that write with a clock at most 24h later
\* than that sweep's now does not select the row again.
\* Two callbacks in flight break the last part: the older one writes its
\* earlier now over the newer one's.
C9_SweepSelection ==
    [][ /\ resp'.op = "sweep" =>
            /\ SelectedKeys(resp'.selected) = {KeyOf(r) : r \in Stale(resp'.now)}
            /\ Len(resp'.selected) = Cardinality(Stale(resp'.now))
            /\ \A k \in Keys :
                 (reminded[k] # NULL /\ resp'.now <= reminded[k] + ReminderCutoff)
                    => k \notin SelectedKeys(resp'.selected)
        /\ (resp'.op = "send" /\ resp'.outcome = "sent") =>
            \A r \in store' : KeyOf(r) = RespKey' => r.lastReminded = resp'.now
      ]_vars

\* what is left of a sweep: two settlements for the row it fetches, one for
\* the row it sends to, two for every row after it
Remaining(sw) ==
    IF sw.pc = "idle"
      THEN 0
      ELSE 2 * (Len(sw.stale) - sw.i) + (IF sw.pc = "fetch" THEN 2 ELSE 1)

\* C10: a failed dispatch leaves the store (so the row's lastReminded) as it
\* was; the sweep goes on to the next selected row; every settlement is for
\* the row at the loop index, which only moves forward by one, so each
\* selected row is attempted once; and every settlement lowers what is left
\* of the sweep, which returns after the last row.
C10_DispatchFailureIsolated ==
    [][ \A s \in 1..MaxSweeps :
          LET sw == sweeps[s]
              after == sweeps'[s]
              mine == resp'.slot = s /\ resp'.op \in {"fetch", "send"}
              failure == resp'.outcome \in {"error", "failed"}
              last == sw.i = Len(sw.stale)
          IN  /\ (mine /\ failure) =>
                  /\ store' = store
                  /\ IF last
                       THEN after = IdleSweep
                       ELSE after = [sw EXCEPT !.pc = "fetch", !.i = sw.i + 1]
              /\ mine =>
                  /\ RespKey' = sw.stale[sw.i]
                  /\ after.pc # "idle" =>
                       /\ after.stale = sw.stale /\ after.now = sw.now
                       /\ after.i = IF resp'.outcome = "user" THEN sw.i ELSE sw.i + 1
                  /\ Remaining(after) < Remaining(sw)
              /\ (~mine /\ sw.pc # "idle") => after = sw
      ]_vars

\* a dispatch failed and the sweep is fetching its next row
C10_Witness ==
    /\ resp.op = "send" /\ resp.outcome = "failed" /\ ~resp.finished
    /\ sweeps[resp.slot].pc = "fetch"
    /\ sweeps[resp.slot].i = 2
    /\ \E r \in store : KeyOf(r) = RespKey /\ r.lastReminded = NULL

\* ------------------------------------------------------------------------
\* Concurrent requests, checked under SpecRace
\* ------------------------------------------------------------------------
\* C11 as stated: while one submit handler holds the record it read and has
\* not written it back, a second submit for that user can read the store.
C11_Original ==
    (Running /\ \E h \in 1..MaxHandlers : handlers[h] = <<>>) => ENABLED RaceReadStep

\* C11 amended: submit handlers run one after the other. An accepted
\* submission writes back the record as the store holds it at that moment,
\* which is the record the latest accepted submission of the key left (when
\* the key was not deleted since), so the streak grows by at most one per
\* accepted submission and two accepted submissions are at least the
\* cooldown window apart.
C11_SubmitsSerialized ==
    [][(resp'.op = "submit" /\ resp'.outcome = "Accepted") =>
         /\ \A h \in 1..MaxHandlers :
                (handlers[h] # <<>> /\ handlers'[h] = <<>>) => handlers[h][1].obj \in store
         /\ \A r \in RowsOf(store, RespKey'), q \in RowsOf(store', RespKey') :
                q.streak <= r.streak + 1
         /\ (accepted[RespKey'] # NULL /\ ~deletedSince[RespKey']) =>
                /\ resp'.previous = accepted[RespKey']
                /\ \A r \in RowsOf(store', RespKey') :
                       r.frequency \in Cadences =>
                          resp'.now >= accepted[RespKey'] + Window(r.frequency)]_vars

\* a second submit handled at the instant of an accepted one read the
\* record that one wrote and was answered CooldownActive
C11_Witness ==
    /\ resp.op = "submit"
    /\ resp.outcome = "CooldownActive"
    /\ resp.previous = resp.now
    /\ accepted[RespKey] = resp.now
    /\ ~Running

\* ------------------------------------------------------------------------
\* Reminder job and commands interleaved, checked under Spec
\* ------------------------------------------------------------------------
SweepOps == {"sweep", "fetch", "send"}

\* C12: a step of the reminder job leaves the set of keys as it was and
\* every row as it was but for lastReminded, which only a delivered reminder
\* changes, only for the row of its key, to its sweep's now; an accepted
\* submission leaves the row's lastReminded and frequency as they were.
C12_SweepWritesLastRemindedOnly ==
    [][/\ resp'.op \in SweepOps =>
            /\ {KeyOf(r) : r \in store'} = {KeyOf(r) : r \in store}
            /\ \A r \in store : \E q \in store' :
                   /\ q = [r EXCEPT !.lastReminded = q.lastReminded]
                   /\ q.lastReminded # r.lastReminded =>
                        /\ resp'.op = "send" /\ resp'.outcome = "sent"
                        /\ KeyOf(r) = RespKey'
                        /\ q.lastReminded = resp'.now
       /\ (resp'.op = "submit" /\ resp'.outcome = "Accepted") =>
            \A r \in RowsOf(store, RespKey'), q \in RowsOf(store', RespKey') :
                q.lastReminded = r.lastReminded /\ q.frequency = r.frequency
      ]_vars

\* a reminder delivered for a row that a submission was accepted for after
\* the sweep selected it
C12_Witness ==
    /\ resp.op = "send"
    /\ resp.outcome = "sent"
    /\ \E r \in RowsOf(store, RespKey) :
           /\ r.lastSubmitted # NULL
           /\ r.lastSubmitted >= resp.now
           /\ r.lastReminded = resp.now
           /\ r.streak > 1

\* ------------------------------------------------------------------------
\* Record invariant, checked under SpecHistory
\* ------------------------------------------------------------------------
SubmittedSinceCreated(k) == accepted[k] # NULL /\ ~deletedSince[k]

\* C13: in every state each record has lastSubmitted null exactly when no
\* submission was accepted for it since it was created, and then streak 0
\* and lastStreakDay null; otherwise streak >= 1 and lastStreakDay is the
\* calendar date of the instant in lastSubmitted.
\* The handler reads the clock twice, Date.now() for lastSubmitted and
\* new Date() for lastStreakDay: the two can lie on either side of midnight.
C13_RecordInvariant ==
    \A r \in store :
        /\ (r.lastSubmitted = NULL) <=> ~SubmittedSinceCreated(KeyOf(r))
        /\ r.lastSubmitted = NULL => (r.streak = 0 /\ r.lastStreakDay = NullDate)
        /\ r.lastSubmitted # NULL =>
              (r.streak >= 1 /\ r.lastStreakDay = ToISODate(r.lastSubmitted))

\* ------------------------------------------------------------------------
\* Streak rule, checked under SpecStreak
\* ------------------------------------------------------------------------
\* the day number of a stored 'YYYY-MM-DD'
CivilDay(date) == DaysFromCivil(date[1], date[2], date[3])

\* calendar days from the stored lastStreakDay of r to that of q
DaysBetween(r, q) == CivilDay(q.lastStreakDay) - CivilDay(r.lastStreakDay)

\* C14: an accepted submission of a daily objective with a lastStreakDay is
\* consecutive exactly when its calendar date is the day after
\* lastStreakDay, at any hour of the day; it then stores streak + 1, and 1
\* otherwise.
C14_DailyConsecutive ==
    [][(resp'.op = "submit" /\ resp'.outcome = "Accepted") =>
         \A r \in RowsOf(store, RespKey'), q \in RowsOf(store', RespKey') :
             (r.frequency = "daily" /\ r.lastStreakDay # NullDate) =>
                 /\ resp'.isConsecutive <=> DaysBetween(r, q) = 1
                 /\ q.streak = IF DaysBetween(r, q) = 1 THEN r.streak + 1 ELSE 1]_vars

\* a daily submission in the last hour of the day after lastStreakDay,
\* more than 24h after the previous one, extends the streak
C14_Witness ==
    /\ resp.op = "submit"
    /\ resp.outcome = "Accepted"
    /\ resp.isConsecutive
    /\ resp.streak = 3
    /\ resp.now % HoursPerDay = 23
    /\ resp.now - resp.previous > 2 * HoursPerDay - 2
    /\ \E r \in RowsOf(store, RespKey) : r.frequency = "daily"

\* C15: an accepted submission of a weekly objective with a lastStreakDay is
\* consecutive exactly when its calendar date is 7 to 13 days after
\* lastStreakDay; it then stores streak + 1, and 1 otherwise.
C15_WeeklyConsecutive ==
    [][(resp'.op = "submit" /\ resp'.outcome = "Accepted") =>
         \A r \in RowsOf(store, RespKey'), q \in RowsOf(store', RespKey') :
             (r.frequency = "weekly" /\ r.lastStreakDay # NullDate) =>
                 /\ resp'.isConsecutive <=> DaysBetween(r, q) \in 7..13
                 /\ q.streak = IF DaysBetween(r, q) \in 7..13 THEN r.streak + 1 ELSE 1]_vars

\* a weekly submission 13 days after lastStreakDay extends the streak
C15_Witness ==
    /\ resp.op = "submit"
    /\ resp.outcome = "Accepted"
    /\ resp.isConsecutive
    /\ resp.streak = 3
    /\ \E r \in RowsOf(store, RespKey) :
           /\ r.frequency = "weekly"
           /\ CivilDay(r.lastStreakDay) - CivilDay(ToISODate(resp.previous)) = 13

\* the month of q's stored date is the one after r's, in the same year
MonthAfter(r, q) ==
    /\ q.lastStreakDay[2] = r.lastStreakDay[2] + 1
    /\ q.lastStreakDay[1] = r.lastStreakDay[1]

\* C16: an accepted submission of a monthly objective with a lastStreakDay
\* is consecutive exactly when the month of its date is the month of
\* lastStreakDay plus one, in the same year (so never from December to
\* January); it then stores streak + 1, and 1 otherwise.
\* The handler parses lastStreakDay as midnight UTC and reads both months
\* with getMonth() and getFullYear(), in the local time of the process.
C16_MonthlyConsecutive ==
    [][(resp'.op = "submit" /\ resp'.outcome = "Accepted") =>
         \A r \in RowsOf(store, RespKey'), q \in RowsOf(store', RespKey') :
             (r.frequency = "monthly" /\ r.lastStreakDay # NullDate) =>
                 /\ resp'.isConsecutive <=> MonthAfter(r, q)
                 /\ q.streak = IF MonthAfter(r, q) THEN r.streak + 1 ELSE 1]_vars

\* ------------------------------------------------------------------------
\* Unrecognised frequency, checked under SpecHistory
\* ------------------------------------------------------------------------
\* C17: for a record whose frequency is none of daily, weekly, monthly the
\* handler's nextAllowed is 0: a submit that finds the record is Accepted
\* whatever its lastSubmitted, stores streak 1 and answers nextAllowed 0,
\* and list_objectives shows it, with the frequency it was created with,
\* as available now.
C17_UnknownFrequencyAlwaysEligible ==
    [][/\ (resp'.op = "submit" /\ resp'.outcome \in {"Accepted", "CooldownActive"}) =>
            \A r \in RowsOf(store, RespKey') :
                r.frequency \notin Cadences =>
                    /\ resp'.outcome = "Accepted"
                    /\ SubmitNextAllowed(r) = 0
                    /\ resp'.nextAllowed = 0
                    /\ ~resp'.isConsecutive
                    /\ \A q \in RowsOf(store', RespKey') :
                           q.streak = 1 /\ q.frequency = r.frequency
       /\ resp'.op = "list_objectives" =>
            \A r \in store :
                (r.userId = resp'.userId /\ r.frequency \notin Cadences) =>
                    \E l \in resp'.lines :
                        /\ l.name = r.name /\ l.frequency = r.frequency
                        /\ l.availability = "now"
      ]_vars

\* a second submission of an "hourly" objective accepted at the instant of
\* the first
C17_Witness ==
    /\ resp.op = "submit"
    /\ resp.outcome = "Accepted"
    /\ resp.previous = resp.now
    /\ resp.streak = 1
    /\ \E r \in RowsOf(store, RespKey) : r.frequency = "hourly"

\* ------------------------------------------------------------------------
\* Daily run at the cooldown boundary, checked under SpecStreak
\* ------------------------------------------------------------------------
\* C18: a daily submission handled exactly at the nextAllowed of the
\* previous accepted submission (22h after it) is accepted, is consecutive
\* and stores the previous streak + 1, never 1 again.
C18_DailyRunAtNextAllowed ==
    [][(resp'.op = "submit" /\ resp'.outcome \in {"Accepted", "CooldownActive"}) =>
          \A r \in RowsOf(store, RespKey') :
              (/\ r.frequency = "daily"
               /\ accepted[RespKey'] # NULL
               /\ r.lastSubmitted = accepted[RespKey']
               /\ resp'.now = SubmitNextAllowed(r)) =>
                  /\ resp'.outcome = "Accepted"
                  /\ resp'.isConsecutive
                  /\ \A q \in RowsOf(store', RespKey') : q.streak = r.streak + 1
      ]_vars

\* ------------------------------------------------------------------------
\* Reminder dispatch against the commands handled during the job's awaits,
\* checked under Spec
\* ------------------------------------------------------------------------
\* C19: when users.fetch has resolved and the job sends the reminder for a
\* selected record, the record is still in the table and still has no
\* submission in the 24h before the sweep's now.
C19_DispatchOnlyIfStillStale ==
    [][(resp'.op = "fetch" /\ resp'.outcome = "user") =>
          \E r \in RowsOf(store, RespKey') :
              r.lastSubmitted = NULL \/ r.lastSubmitted < resp'.now - ReminderCutoff
      ]_vars

\* ------------------------------------------------------------------------
\* Repeated reminders, checked under SpecReminders
\* ------------------------------------------------------------------------
\* C20: a successful dispatch for a record that was reminded before, and not
\* deleted since, belongs to a sweep whose now is more than 24h after the
\* now of the latest sweep that reminded it; and no step lowers the
\* lastReminded of a record, overlapping callbacks included.
C20_RemindersSpacedAndMonotone ==
    [][ /\ (resp'.op = "send" /\ resp'.outcome = "sent") =>
            \A r \in RowsOf(store, RespKey') :
                reminded[RespKey'] # NULL =>
                    resp'.now > reminded[RespKey'] + ReminderCutoff
        /\ \A r \in store : \A q \in RowsOf(store', KeyOf(r)) :
                r.lastReminded # NULL =>
                    (q.lastReminded # NULL /\ q.lastReminded >= r.lastReminded)
      ]_vars

====
